---- MODULE Spec2Model ----
(***************************************************************************)
(* Model of the codec and domain-model layer of ggst-api-rs (src/lib.rs):  *)
(* the Character and Floor enumerations with their byte / string codecs,   *)
(* the derived PartialEq / Hash of Player, and Match::winner / loser.      *)
(*                                                                         *)
(* Rust strings are modelled as sequences of one-character strings, so     *)
(* that case, length and hexadecimal formatting are observable.            *)
(***************************************************************************)
EXTENDS Integers, Sequences, FiniteSets, TLC

VARIABLES op, arg, res, calls, prev

vars == <<op, arg, res, calls, prev>>

\* ------------------------------------------------------------------ bounds
\* longest generated input string handed to Character::from_code
MaxLen == 3
\* number of distinct player id strings
NumIds == 2
\* number of distinct player display-name strings
NumNames == 2

\* number of times the operation is called on its input
MaxCalls == 2

\* largest value of the u8 type
U8Max == 255

\* ------------------------------------------------------------- enumerations
\* pub enum Character, in declaration order
Character ==
  <<"Sol", "Ky", "May", "Axl", "Chipp", "Potemkin", "Faust", "Millia", "Zato",
    "Ramlethal", "Leo", "Nagoriyuki", "Giovanna", "Anji", "Ino", "Goldlewis",
    "Jacko", "HappyChaos">>

CharacterSet == {Character[i] : i \in 1..Len(Character)}

\* pub enum Floor, in declaration order
Floor ==
  <<"F1", "F2", "F3", "F4", "F5", "F6", "F7", "F8", "F9", "F10", "Celestial">>

FloorSet == {Floor[i] : i \in 1..Len(Floor)}

\* enum Winner
Winner == {"Player1", "Player2"}

\* Result<T>: Ok(v) or Err(Error::<variant>(payload))
Ok(v) == [ok |-> TRUE, val |-> v]

Err(variant, payload) == [ok |-> FALSE, variant |-> variant, payload |-> payload]

\* --------------------------------------------------------------- formatting
HexDigitsLower ==
  <<"0", "1", "2", "3", "4", "5", "6", "7", "8", "9", "a", "b", "c", "d", "e", "f">>

\* format!("{:x}", c): lowercase hexadecimal, no prefix, no padding
RECURSIVE FormatLowerHex(_)
FormatLowerHex(n) ==
  IF n < 16 THEN <<HexDigitsLower[n + 1]>>
  ELSE FormatLowerHex(n \div 16) \o <<HexDigitsLower[(n % 16) + 1]>>

\* the literal " is not a valid character code"
CharacterCodeSuffix ==
  <<" ", "i", "s", " ", "n", "o", "t", " ", "a", " ", "v", "a", "l", "i", "d",
    " ", "c", "h", "a", "r", "a", "c", "t", "e", "r", " ", "c", "o", "d", "e">>

\* the literal " is not a valid floor code"
FloorCodeSuffix ==
  <<" ", "i", "s", " ", "n", "o", "t", " ", "a", " ", "v", "a", "l", "i", "d",
    " ", "f", "l", "o", "o", "r", " ", "c", "o", "d", "e">>

\* ---------------------------------------------------------- impl Character
Character_from_u8_default(c) ==
  IF c <= 17 THEN Ok(Character[c + 1]) ELSE Ok("Sol")

Character_from_u8(c) ==
  CASE c = 0 -> Ok("Sol")
    [] c = 1 -> Ok("Ky")
    [] c = 2 -> Ok("May")
    [] c = 3 -> Ok("Axl")
    [] c = 4 -> Ok("Chipp")
    [] c = 5 -> Ok("Potemkin")
    [] c = 6 -> Ok("Faust")
    [] c = 7 -> Ok("Millia")
    [] c = 8 -> Ok("Zato")
    [] c = 9 -> Ok("Ramlethal")
    [] c = 10 -> Ok("Leo")
    [] c = 11 -> Ok("Nagoriyuki")
    [] c = 12 -> Ok("Giovanna")
    [] c = 13 -> Ok("Anji")
    [] c = 14 -> Ok("Ino")
    [] c = 15 -> Ok("Goldlewis")
    [] c = 16 -> Ok("Jacko")
    [] c = 17 -> Ok("HappyChaos")
    [] OTHER -> Err("InvalidArguments", FormatLowerHex(c) \o CharacterCodeSuffix)

\* a to_u8 whose Leo and Nagoriyuki arms are exchanged
Character_to_u8_swapped(self) ==
  CASE self = "Sol" -> 0
    [] self = "Ky" -> 1
    [] self = "May" -> 2
    [] self = "Axl" -> 3
    [] self = "Chipp" -> 4
    [] self = "Potemkin" -> 5
    [] self = "Faust" -> 6
    [] self = "Millia" -> 7
    [] self = "Zato" -> 8
    [] self = "Ramlethal" -> 9
    [] self = "Leo" -> 11
    [] self = "Nagoriyuki" -> 10
    [] self = "Giovanna" -> 12
    [] self = "Anji" -> 13
    [] self = "Ino" -> 14
    [] self = "Goldlewis" -> 15
    [] self = "Jacko" -> 16
    [] self = "HappyChaos" -> 17

Character_to_u8(self) ==
  CASE self = "Sol" -> 0
    [] self = "Ky" -> 1
    [] self = "May" -> 2
    [] self = "Axl" -> 3
    [] self = "Chipp" -> 4
    [] self = "Potemkin" -> 5
    [] self = "Faust" -> 6
    [] self = "Millia" -> 7
    [] self = "Zato" -> 8
    [] self = "Ramlethal" -> 9
    [] self = "Leo" -> 10
    [] self = "Nagoriyuki" -> 11
    [] self = "Giovanna" -> 12
    [] self = "Anji" -> 13
    [] self = "Ino" -> 14
    [] self = "Goldlewis" -> 15
    [] self = "Jacko" -> 16
    [] self = "HappyChaos" -> 17

\* a to_code that gives HappyChaos the code of Jacko
Character_to_code_dup(self) ==
  CASE self = "Sol" -> <<"S", "O", "L">>
    [] self = "Ky" -> <<"K", "Y", "K">>
    [] self = "May" -> <<"M", "A", "Y">>
    [] self = "Axl" -> <<"A", "X", "L">>
    [] self = "Leo" -> <<"L", "E", "O">>
    [] self = "Ino" -> <<"I", "N", "O">>
    [] self = "Zato" -> <<"Z", "A", "T">>
    [] self = "Anji" -> <<"A", "N", "J">>
    [] self = "Chipp" -> <<"C", "H", "P">>
    [] self = "Faust" -> <<"F", "A", "U">>
    [] self = "Potemkin" -> <<"P", "O", "T">>
    [] self = "Millia" -> <<"M", "L", "L">>
    [] self = "Ramlethal" -> <<"R", "A", "M">>
    [] self = "Giovanna" -> <<"G", "I", "O">>
    [] self = "Nagoriyuki" -> <<"N", "A", "G">>
    [] self = "Goldlewis" -> <<"G", "L", "D">>
    [] self = "Jacko" -> <<"J", "K", "O">>
    [] self = "HappyChaos" -> <<"J", "K", "O">>

Character_to_code(self) ==
  CASE self = "Sol" -> <<"S", "O", "L">>
    [] self = "Ky" -> <<"K", "Y", "K">>
    [] self = "May" -> <<"M", "A", "Y">>
    [] self = "Axl" -> <<"A", "X", "L">>
    [] self = "Leo" -> <<"L", "E", "O">>
    [] self = "Ino" -> <<"I", "N", "O">>
    [] self = "Zato" -> <<"Z", "A", "T">>
    [] self = "Anji" -> <<"A", "N", "J">>
    [] self = "Chipp" -> <<"C", "H", "P">>
    [] self = "Faust" -> <<"F", "A", "U">>
    [] self = "Potemkin" -> <<"P", "O", "T">>
    [] self = "Millia" -> <<"M", "L", "L">>
    [] self = "Ramlethal" -> <<"R", "A", "M">>
    [] self = "Giovanna" -> <<"G", "I", "O">>
    [] self = "Nagoriyuki" -> <<"N", "A", "G">>
    [] self = "Goldlewis" -> <<"G", "L", "D">>
    [] self = "Jacko" -> <<"J", "K", "O">>
    [] self = "HappyChaos" -> <<"C", "O", "S">>

UpperLetters ==
  <<"A", "B", "C", "D", "E", "F", "G", "H", "I", "J", "K", "L", "M",
    "N", "O", "P", "Q", "R", "S", "T", "U", "V", "W", "X", "Y", "Z">>

LowerLetters ==
  <<"a", "b", "c", "d", "e", "f", "g", "h", "i", "j", "k", "l", "m",
    "n", "o", "p", "q", "r", "s", "t", "u", "v", "w", "x", "y", "z">>

\* char::to_ascii_uppercase
ToUpperChar(ch) ==
  IF \E i \in 1..26 : LowerLetters[i] = ch
  THEN UpperLetters[CHOOSE i \in 1..26 : LowerLetters[i] = ch]
  ELSE ch

\* char::to_ascii_lowercase
ToLowerChar(ch) ==
  IF \E i \in 1..26 : UpperLetters[i] = ch
  THEN LowerLetters[CHOOSE i \in 1..26 : UpperLetters[i] = ch]
  ELSE ch

ToUpperStr(s) == [i \in 1..Len(s) |-> ToUpperChar(s[i])]

ToLowerStr(s) == [i \in 1..Len(s) |-> ToLowerChar(s[i])]

\* a from_code whose table lacks the newest character
Character_from_code_stale(code) ==
  CASE code = <<"S", "O", "L">> -> Ok("Sol")
    [] code = <<"K", "Y", "K">> -> Ok("Ky")
    [] code = <<"M", "A", "Y">> -> Ok("May")
    [] code = <<"A", "X", "L">> -> Ok("Axl")
    [] code = <<"L", "E", "O">> -> Ok("Leo")
    [] code = <<"I", "N", "O">> -> Ok("Ino")
    [] code = <<"Z", "A", "T">> -> Ok("Zato")
    [] code = <<"A", "N", "J">> -> Ok("Anji")
    [] code = <<"C", "H", "P">> -> Ok("Chipp")
    [] code = <<"F", "A", "U">> -> Ok("Faust")
    [] code = <<"P", "O", "T">> -> Ok("Potemkin")
    [] code = <<"M", "L", "L">> -> Ok("Millia")
    [] code = <<"R", "A", "M">> -> Ok("Ramlethal")
    [] code = <<"G", "I", "O">> -> Ok("Giovanna")
    [] code = <<"N", "A", "G">> -> Ok("Nagoriyuki")
    [] code = <<"G", "L", "D">> -> Ok("Goldlewis")
    [] code = <<"J", "K", "O">> -> Ok("Jacko")
    [] OTHER -> Err("InvalidCharacterCode", code)

\* a from_code that matches the table ignoring ASCII case
Character_from_code_nocase(code) ==
  CASE ToUpperStr(code) = <<"S", "O", "L">> -> Ok("Sol")
    [] ToUpperStr(code) = <<"K", "Y", "K">> -> Ok("Ky")
    [] ToUpperStr(code) = <<"M", "A", "Y">> -> Ok("May")
    [] ToUpperStr(code) = <<"A", "X", "L">> -> Ok("Axl")
    [] ToUpperStr(code) = <<"L", "E", "O">> -> Ok("Leo")
    [] ToUpperStr(code) = <<"I", "N", "O">> -> Ok("Ino")
    [] ToUpperStr(code) = <<"Z", "A", "T">> -> Ok("Zato")
    [] ToUpperStr(code) = <<"A", "N", "J">> -> Ok("Anji")
    [] ToUpperStr(code) = <<"C", "H", "P">> -> Ok("Chipp")
    [] ToUpperStr(code) = <<"F", "A", "U">> -> Ok("Faust")
    [] ToUpperStr(code) = <<"P", "O", "T">> -> Ok("Potemkin")
    [] ToUpperStr(code) = <<"M", "L", "L">> -> Ok("Millia")
    [] ToUpperStr(code) = <<"R", "A", "M">> -> Ok("Ramlethal")
    [] ToUpperStr(code) = <<"G", "I", "O">> -> Ok("Giovanna")
    [] ToUpperStr(code) = <<"N", "A", "G">> -> Ok("Nagoriyuki")
    [] ToUpperStr(code) = <<"G", "L", "D">> -> Ok("Goldlewis")
    [] ToUpperStr(code) = <<"J", "K", "O">> -> Ok("Jacko")
    [] ToUpperStr(code) = <<"C", "O", "S">> -> Ok("HappyChaos")
    [] OTHER -> Err("InvalidCharacterCode", code)

Character_from_code(code) ==
  CASE code = <<"S", "O", "L">> -> Ok("Sol")
    [] code = <<"K", "Y", "K">> -> Ok("Ky")
    [] code = <<"M", "A", "Y">> -> Ok("May")
    [] code = <<"A", "X", "L">> -> Ok("Axl")
    [] code = <<"L", "E", "O">> -> Ok("Leo")
    [] code = <<"I", "N", "O">> -> Ok("Ino")
    [] code = <<"Z", "A", "T">> -> Ok("Zato")
    [] code = <<"A", "N", "J">> -> Ok("Anji")
    [] code = <<"C", "H", "P">> -> Ok("Chipp")
    [] code = <<"F", "A", "U">> -> Ok("Faust")
    [] code = <<"P", "O", "T">> -> Ok("Potemkin")
    [] code = <<"M", "L", "L">> -> Ok("Millia")
    [] code = <<"R", "A", "M">> -> Ok("Ramlethal")
    [] code = <<"G", "I", "O">> -> Ok("Giovanna")
    [] code = <<"N", "A", "G">> -> Ok("Nagoriyuki")
    [] code = <<"G", "L", "D">> -> Ok("Goldlewis")
    [] code = <<"J", "K", "O">> -> Ok("Jacko")
    [] code = <<"C", "O", "S">> -> Ok("HappyChaos")
    [] OTHER -> Err("InvalidCharacterCode", code)

\* ------------------------------------------------------------- impl Floor
\* a from_u8 that also accepts 0x0a for the tenth floor
Floor_from_u8_tenth(c) ==
  CASE c = 0 -> Ok("F1")
    [] c = 1 -> Ok("F2")
    [] c = 2 -> Ok("F3")
    [] c = 3 -> Ok("F4")
    [] c = 4 -> Ok("F5")
    [] c = 5 -> Ok("F6")
    [] c = 6 -> Ok("F7")
    [] c = 7 -> Ok("F8")
    [] c = 8 -> Ok("F9")
    [] c = 9 -> Ok("F10")
    [] c = 10 -> Ok("F10")
    [] c = 99 -> Ok("Celestial")
    [] OTHER -> Err("InvalidArguments", FormatLowerHex(c) \o FloorCodeSuffix)

Floor_from_u8(c) ==
  CASE c = 0 -> Ok("F1")
    [] c = 1 -> Ok("F2")
    [] c = 2 -> Ok("F3")
    [] c = 3 -> Ok("F4")
    [] c = 4 -> Ok("F5")
    [] c = 5 -> Ok("F6")
    [] c = 6 -> Ok("F7")
    [] c = 7 -> Ok("F8")
    [] c = 8 -> Ok("F9")
    [] c = 9 -> Ok("F10")
    [] c = 99 -> Ok("Celestial")
    [] OTHER -> Err("InvalidArguments", FormatLowerHex(c) \o FloorCodeSuffix)

\* a to_hex that writes the tenth floor in uppercase
Floor_to_hex_upper(self) ==
  CASE self = "F1" -> <<"0", "0">>
    [] self = "F2" -> <<"0", "1">>
    [] self = "F3" -> <<"0", "2">>
    [] self = "F4" -> <<"0", "3">>
    [] self = "F5" -> <<"0", "4">>
    [] self = "F6" -> <<"0", "5">>
    [] self = "F7" -> <<"0", "6">>
    [] self = "F8" -> <<"0", "7">>
    [] self = "F9" -> <<"0", "8">>
    [] self = "F10" -> <<"0", "A">>
    [] self = "Celestial" -> <<"6", "3">>

Floor_to_hex(self) ==
  CASE self = "F1" -> <<"0", "0">>
    [] self = "F2" -> <<"0", "1">>
    [] self = "F3" -> <<"0", "2">>
    [] self = "F4" -> <<"0", "3">>
    [] self = "F5" -> <<"0", "4">>
    [] self = "F6" -> <<"0", "5">>
    [] self = "F7" -> <<"0", "6">>
    [] self = "F8" -> <<"0", "7">>
    [] self = "F9" -> <<"0", "8">>
    [] self = "F10" -> <<"0", "a">>
    [] self = "Celestial" -> <<"6", "3">>

\* ------------------------------------------------------------ struct Player
\* player id strings "id1", "id2", ...
Ids == {<<"i", "d", HexDigitsLower[k + 1]>> : k \in 1..NumIds}

\* player display-name strings "n1", "n2", ...
Names == {<<"n", HexDigitsLower[k + 1]>> : k \in 1..NumNames}

\* struct Player { id, name, character }
Player == [id : Ids, name : Names, character : CharacterSet]

\* an equality that leaves the id out of the comparison
Player_eq_noid(self, other) ==
  /\ self.name = other.name
  /\ self.character = other.character

\* #[derive(PartialEq, Eq)] on Player: field-wise comparison in declaration order
Player_eq(self, other) ==
  /\ self.id = other.id
  /\ self.name = other.name
  /\ self.character = other.character

\* #[derive(Hash)] on Player: the fields are fed to the hasher in declaration
\* order; the hasher state is the sequence of values written to it
Player_hash(self) == <<self.id, self.name, self.character>>

\* ------------------------------------------------------------- struct Match
\* characters of the players placed in a Match
MatchCharacters == {"Sol", "Ky"}

\* timestamps (DateTime<Utc>) as seconds of an epoch
Timestamps == {0, 1}

\* struct Match { floor, timestamp, players, winner }
Match ==
  [floor : FloorSet,
   timestamp : Timestamps,
   players : {p \in Player : p.character \in MatchCharacters}
             \X {p \in Player : p.character \in MatchCharacters},
   winner : Winner]

\* Match::winner; the reference &self.players.N is the position N + 1 of the pair
Match_winner(self) ==
  CASE self.winner = "Player1" -> 1
    [] self.winner = "Player2" -> 2

\* a loser that repeats the arms of winner
Match_loser_same(self) ==
  CASE self.winner = "Player1" -> 1
    [] self.winner = "Player2" -> 2

\* Match::loser
Match_loser(self) ==
  CASE self.winner = "Player1" -> 2
    [] self.winner = "Player2" -> 1

\* ------------------------------------------------------------------- inputs
\* every value of the u8 type
Bytes == 0..U8Max

\* the letters the generated strings are made of
SmallAlphabet == {"S", "O", "L", "s", "o", "l"}

\* all strings over SmallAlphabet of length at most MaxLen
GeneratedStrings == UNION {[1..n -> SmallAlphabet] : n \in 0..MaxLen}

\* the 18 three-letter codes of the profile API
KnownCodes == {Character_to_code(v) : v \in CharacterSet}

\* strings handed to Character::from_code: the generated strings, the known
\* codes, and each known code lowercased, capitalised, cut short and extended
CodeInputs ==
  GeneratedStrings
    \cup KnownCodes
    \cup {ToLowerStr(k) : k \in KnownCodes}
    \cup {<<k[1]>> \o ToLowerStr(SubSeq(k, 2, Len(k))) : k \in KnownCodes}
    \cup {SubSeq(k, 1, Len(k) - 1) : k \in KnownCodes}
    \cup {k \o <<x>> : k \in KnownCodes, x \in SmallAlphabet}

\* -------------------------------------------------------------- operations
\* op is the operation under examination and arg the value it is applied to;
\* res is the value of the latest call, calls the number of calls made so far,
\* prev the values the earlier calls returned
Init ==
  /\ res = <<>>
  /\ calls = 0
  /\ prev = {}
  /\ \/ op = "Character::from_u8" /\ arg \in Bytes
     \/ op = "Character::to_u8" /\ arg \in CharacterSet
     \/ op = "Character::to_code" /\ arg \in CharacterSet
     \/ op = "Character::from_code" /\ arg \in CodeInputs
     \/ op = "Floor::from_u8" /\ arg \in Bytes
     \/ op = "Floor::to_hex" /\ arg \in FloorSet
     \/ op = "Player::eq" /\ arg \in Player \X Player
     \/ op = "Player::hash" /\ arg \in Player
     \/ op = "Match::winner" /\ arg \in Match
     \/ op = "Match::loser" /\ arg \in Match

CharacterFromU8 ==
  /\ op = "Character::from_u8"
  /\ calls < MaxCalls
  /\ res' = Character_from_u8(arg)
  /\ calls' = calls + 1
  /\ prev' = IF calls > 0 THEN prev \cup {res} ELSE prev
  /\ UNCHANGED <<op, arg>>

CharacterToU8 ==
  /\ op = "Character::to_u8"
  /\ calls < MaxCalls
  /\ res' = Character_to_u8(arg)
  /\ calls' = calls + 1
  /\ prev' = IF calls > 0 THEN prev \cup {res} ELSE prev
  /\ UNCHANGED <<op, arg>>

CharacterToCode ==
  /\ op = "Character::to_code"
  /\ calls < MaxCalls
  /\ res' = Character_to_code(arg)
  /\ calls' = calls + 1
  /\ prev' = IF calls > 0 THEN prev \cup {res} ELSE prev
  /\ UNCHANGED <<op, arg>>

CharacterFromCode ==
  /\ op = "Character::from_code"
  /\ calls < MaxCalls
  /\ res' = Character_from_code(arg)
  /\ calls' = calls + 1
  /\ prev' = IF calls > 0 THEN prev \cup {res} ELSE prev
  /\ UNCHANGED <<op, arg>>

FloorFromU8 ==
  /\ op = "Floor::from_u8"
  /\ calls < MaxCalls
  /\ res' = Floor_from_u8(arg)
  /\ calls' = calls + 1
  /\ prev' = IF calls > 0 THEN prev \cup {res} ELSE prev
  /\ UNCHANGED <<op, arg>>

FloorToHex ==
  /\ op = "Floor::to_hex"
  /\ calls < MaxCalls
  /\ res' = Floor_to_hex(arg)
  /\ calls' = calls + 1
  /\ prev' = IF calls > 0 THEN prev \cup {res} ELSE prev
  /\ UNCHANGED <<op, arg>>

PlayerEq ==
  /\ op = "Player::eq"
  /\ calls < MaxCalls
  /\ res' = Player_eq(arg[1], arg[2])
  /\ calls' = calls + 1
  /\ prev' = IF calls > 0 THEN prev \cup {res} ELSE prev
  /\ UNCHANGED <<op, arg>>

PlayerHash ==
  /\ op = "Player::hash"
  /\ calls < MaxCalls
  /\ res' = Player_hash(arg)
  /\ calls' = calls + 1
  /\ prev' = IF calls > 0 THEN prev \cup {res} ELSE prev
  /\ UNCHANGED <<op, arg>>

MatchWinner ==
  /\ op = "Match::winner"
  /\ calls < MaxCalls
  /\ res' = Match_winner(arg)
  /\ calls' = calls + 1
  /\ prev' = IF calls > 0 THEN prev \cup {res} ELSE prev
  /\ UNCHANGED <<op, arg>>

MatchLoser ==
  /\ op = "Match::loser"
  /\ calls < MaxCalls
  /\ res' = Match_loser(arg)
  /\ calls' = calls + 1
  /\ prev' = IF calls > 0 THEN prev \cup {res} ELSE prev
  /\ UNCHANGED <<op, arg>>

Next ==
  \/ CharacterFromU8
  \/ CharacterToU8
  \/ CharacterToCode
  \/ CharacterFromCode
  \/ FloorFromU8
  \/ FloorToHex
  \/ PlayerEq
  \/ PlayerHash
  \/ MatchWinner
  \/ MatchLoser

Spec == Init /\ [][Next]_vars

\* ------------------------------------------------------ reading hexadecimal
IsLowerHexDigit(ch) == \E i \in 1..16 : HexDigitsLower[i] = ch

HexDigitValue(ch) == (CHOOSE i \in 1..16 : HexDigitsLower[i] = ch) - 1

\* the number a string of lowercase hex digits spells
RECURSIVE HexValue(_)
HexValue(s) ==
  IF Len(s) = 0 THEN 0
  ELSE 16 * HexValue(SubSeq(s, 1, Len(s) - 1)) + HexDigitValue(s[Len(s)])

\* the part of a message before its first space
FirstWord(msg) ==
  IF \E i \in 1..Len(msg) : msg[i] = " "
  THEN SubSeq(msg, 1, (CHOOSE i \in 1..Len(msg) :
                         msg[i] = " " /\ \A j \in 1..(i - 1) : msg[j] # " ") - 1)
  ELSE msg

\* msg starts with b written in lowercase hex, followed by a space
StartsWithLowerHexOf(msg, b) ==
  LET w == FirstWord(msg) IN
    /\ Len(w) > 0
    /\ Len(w) < Len(msg)
    /\ \A i \in 1..Len(w) : IsLowerHexDigit(w[i])
    /\ (Len(w) > 1 => w[1] # "0")
    /\ HexValue(w) = b

\* ------------------------------------------------------------------- claims
\* C1: for every Character variant V, from_u8(to_u8(V)) is Ok(V)
C1_U8RoundTrip ==
  (op = "Character::to_u8" /\ calls > 0) => Character_from_u8(res) = Ok(arg)

C1_Witness ==
  op = "Character::to_u8" /\ calls > 0 /\ arg = "HappyChaos" /\ res = 17

\* C2: for every Character variant V, from_code(to_code(V)) is Ok(V)
C2_CodeRoundTrip ==
  (op = "Character::to_code" /\ calls > 0) => Character_from_code(res) = Ok(arg)

C2_Witness ==
  op = "Character::to_code" /\ calls > 0 /\ arg = "HappyChaos" /\ res = <<"C", "O", "S">>

\* C3: Character::from_u8(b) is Ok of a variant exactly when b is in 0x00..0x11;
\* every other byte gives InvalidArguments with a message that starts with b in
\* lowercase hex, never a default variant
C3_CharacterFromU8Domain ==
  (op = "Character::from_u8" /\ calls > 0) =>
    /\ res.ok <=> arg \in 0..17
    /\ res.ok => res.val \in CharacterSet
    /\ ~res.ok => /\ res.variant = "InvalidArguments"
                  /\ StartsWithLowerHexOf(res.payload, arg)

C3_Witness ==
  /\ op = "Character::from_u8" /\ calls > 0 /\ arg = 18
  /\ ~res.ok
  /\ SubSeq(res.payload, 1, 3) = <<"1", "2", " ">>

C5_FloorHexRoundTrip ==
  (op = "Floor::to_hex" /\ calls > 0) => Floor_from_u8(HexValue(res)) = Ok(arg)

\* C6: Floor::from_u8(b) is Ok exactly when b is in 0x00..0x09 (F1..F10 in
\* order) or b is 0x63 (Celestial); every other byte, 0x0a included, gives
\* InvalidArguments with a message that starts with b in lowercase hex
C6_FloorFromU8Domain ==
  (op = "Floor::from_u8" /\ calls > 0) =>
    /\ res.ok <=> (arg \in 0..9 \/ arg = 99)
    /\ arg \in 0..9 => res = Ok(Floor[arg + 1])
    /\ arg = 99 => res = Ok("Celestial")
    /\ ~res.ok => /\ res.variant = "InvalidArguments"
                  /\ StartsWithLowerHexOf(res.payload, arg)

C6_Witness ==
  /\ op = "Floor::from_u8" /\ calls > 0 /\ arg = 10
  /\ ~res.ok
  /\ SubSeq(res.payload, 1, 2) = <<"a", " ">>

\* C7: Floor::to_hex returns exactly two lowercase hex digits for every
\* variant, the same string on every call with the same variant, and "00" for
\* F1, "0a" for F10, "63" for Celestial
C7_ToHexShape ==
  (op = "Floor::to_hex" /\ calls > 0) =>
    /\ Len(res) = 2
    /\ IsLowerHexDigit(res[1]) /\ IsLowerHexDigit(res[2])
    /\ \A r \in prev : r = res
    /\ arg = "F1" => res = <<"0", "0">>
    /\ arg = "F10" => res = <<"0", "a">>
    /\ arg = "Celestial" => res = <<"6", "3">>

C7_Witness ==
  /\ op = "Floor::to_hex" /\ calls = 2 /\ arg = "F10"
  /\ res = <<"0", "a">>
  /\ prev = {<<"0", "a">>}

\* C8: Character::from_code(s) is Ok exactly when s is one of the 18 codes
\* to_code produces, compared case-sensitively ("sol" and "Sol" fail, "SOL"
\* succeeds); every other string gives InvalidCharacterCode carrying s unchanged
C8_FromCodeDomain ==
  (op = "Character::from_code" /\ calls > 0) =>
    /\ Cardinality(KnownCodes) = 18
    /\ res.ok <=> arg \in KnownCodes
    /\ ~res.ok => res = Err("InvalidCharacterCode", arg)
    /\ arg = <<"s", "o", "l">> => ~res.ok
    /\ arg = <<"S", "o", "l">> => ~res.ok
    /\ arg = <<"S", "O", "L">> => res.ok

C8_Witness ==
  /\ op = "Character::from_code" /\ calls > 0
  /\ arg = <<"S", "o", "l">>
  /\ ~res.ok
  /\ res.payload = <<"S", "o", "l">>

\* C9: to_u8, to_code and to_hex give different variants different codes, and
\* no two different bytes or strings that decode successfully give the same
\* Character or the same Floor
C9_Injective ==
  calls > 0 =>
    /\ op = "Character::to_u8" =>
         \A v \in CharacterSet \ {arg} : Character_to_u8(v) # res
    /\ op = "Character::to_code" =>
         \A v \in CharacterSet \ {arg} : Character_to_code(v) # res
    /\ op = "Floor::to_hex" =>
         \A v \in FloorSet \ {arg} : Floor_to_hex(v) # res
    /\ (op = "Character::from_u8" /\ res.ok) =>
         \A c \in Bytes \ {arg} :
           Character_from_u8(c).ok => Character_from_u8(c).val # res.val
    /\ (op = "Floor::from_u8" /\ res.ok) =>
         \A c \in Bytes \ {arg} :
           Floor_from_u8(c).ok => Floor_from_u8(c).val # res.val
    /\ (op = "Character::from_code" /\ res.ok) =>
         \A code \in CodeInputs :
           (code # arg /\ Character_from_code(code).ok) =>
             Character_from_code(code).val # res.val

C9_Witness ==
  op = "Character::to_code" /\ calls > 0 /\ arg = "Jacko" /\ res = <<"J", "K", "O">>

\* C10: two Players are equal exactly when id, name and character are all
\* equal; equal Players hash identically, and a difference in any single
\* field, the id included, makes them unequal
C10_PlayerEquality ==
  (op = "Player::eq" /\ calls > 0) =>
    /\ res <=> (/\ arg[1].id = arg[2].id
                /\ arg[1].name = arg[2].name
                /\ arg[1].character = arg[2].character)
    /\ res => Player_hash(arg[1]) = Player_hash(arg[2])
    /\ ~res => Player_hash(arg[1]) # Player_hash(arg[2])

C10_Witness ==
  /\ op = "Player::eq" /\ calls > 0
  /\ arg[1].id # arg[2].id
  /\ arg[1].name = arg[2].name
  /\ arg[1].character = arg[2].character
  /\ res = FALSE

====
